---------------------------- MODULE Spec2Model ----------------------------
(***************************************************************************)
(* Model of predictor/main.py: the background forecasting loop, the        *)
(* labelled forecast gauge it publishes to, and the /metrics scrape that   *)
(* reads the gauge concurrently.                                           *)
(*                                                                         *)
(* Numbers are fixed point.  CPU usage is in millicores, the CPU limit in  *)
(* tenths of a core, and a utilization or forecast value in hundredths     *)
(* (usage / limit in these units is utilization in hundredths).            *)
(* A float that may be NaN is a cell: <<>> is NaN and <<v>> is the value v.*)
(***************************************************************************)
EXTENDS Integers, Sequences, FiniteSets, TLC

VARIABLES
    started,    \* the module has been loaded (line 239 has run)
    th,         \* per loop thread: position in loop() and its locals
    children,   \* G._metrics: label -> value of the labelled gauge child
    scraped,    \* the samples returned by the latest /metrics scrape
    probe,      \* the body returned by the latest /healthz request, if any
    call        \* one call of a pure helper: its arguments and result

vars == <<started, th, children, scraped, probe, call>>

-----------------------------------------------------------------------------
(* Configuration and program constants *)

DEPLOY == "cpu-demo"

\* LAGS (env LAGS): the lag count, kept small here
LAGS == 2

\* len(X) < 20 takes the degrade path
MinRows == 20

\* min(yhat, 2.0), in hundredths
ClampMax == 200

\* the fallback limit 0.1, in tenths of a core
FallbackLimit == 1

\* resample("5s")
ResampleSec == 5

\* INTERVAL (env INTERVAL_SEC, default 60): seconds of each time.sleep
INTERVAL == 60

\* timedelta(minutes=LAGS + 10): the margin of the lookback window
WindowMargin == 10

-----------------------------------------------------------------------------
(* Bounds of the model *)

\* thread identities the process could create
MaxThreads == 2

\* longest point list a usage range query returns
MaxPoints == 2

\* longest series and largest lag count in a direct make_supervised call
MaxLen == 4

\* longest point list in a direct call of the normalizer
NormPoints == 3

Threads == 1..MaxThreads

\* timestamps (seconds) and values (millicores) of usage points
Timestamps == {0, 60, 120}

UsageValues == {200, 600}

\* values of the limit instant query, tenths of a core
LimitValues == {-10, 0, 10}

\* outputs of model.predict, hundredths
RawForecasts == {-50, 40, 350}

\* values of a series passed directly to make_supervised
SeriesValues == {1, 2, 3}

\* timestamps (seconds after the window start) of points passed directly to
\* the normalizer
NormOffsets == {0, 3, 5, 10, 20}

-----------------------------------------------------------------------------
(* Cells: floats that may be NaN *)

NaN == <<>>

IsNaN(c) == c = <<>>

SeqsUpTo(S, n) == UNION {[1..k -> S] : k \in 0..n}

PointLists == SeqsUpTo(Timestamps \X UsageValues, MaxPoints)

-----------------------------------------------------------------------------
(* Series normalizer: lines 157-164 *)

\* df.sort_values("ts"): insert p into a list sorted by timestamp
RECURSIVE InsertByTs(_, _)
InsertByTs(p, sorted) ==
    IF sorted = <<>> THEN <<p>>
    ELSE IF p[1] < Head(sorted)[1] THEN <<p>> \o sorted
    ELSE <<Head(sorted)>> \o InsertByTs(p, Tail(sorted))

RECURSIVE SortByTs(_)
SortByTs(points) ==
    IF points = <<>> THEN <<>>
    ELSE InsertByTs(points[Len(points)], SortByTs(SubSeq(points, 1, Len(points) - 1)))

RECURSIVE SumSeq(_)
SumSeq(q) == IF q = <<>> THEN 0 ELSE Head(q) + SumSeq(Tail(q))

\* the 5-second bin of a timestamp
Bin(ts) == ts \div ResampleSec

\* .mean() of one bin: NaN for an empty bin
BinMean(df, b) ==
    LET inBin(p) == Bin(p[1]) = b
        rows == SelectSeq(df, inBin)
        vals == [i \in 1..Len(rows) |-> rows[i][2]]
    IN  IF rows = <<>> THEN NaN ELSE <<SumSeq(vals) \div Len(vals)>>

\* s.resample("5s").mean(): one cell per bin from the first point's bin to the last's
Resample(df) ==
    LET lo == Bin(df[1][1])
        hi == Bin(df[Len(df)][1])
    IN  [i \in 1..(hi - lo + 1) |-> BinMean(df, lo + i - 1)]

\* variant: gaps are filled from the nearest later value
FillFromLater(q) ==
    [i \in 1..Len(q) |->
        LET after == {j \in i..Len(q) : ~IsNaN(q[j])}
        IN  IF after = {} THEN NaN
            ELSE q[CHOOSE j \in after : \A k \in after : j <= k]]

\* .ffill(): a NaN cell takes the nearest earlier value
Ffill(q) ==
    [i \in 1..Len(q) |->
        LET before == {j \in 1..i : ~IsNaN(q[j])}
        IN  IF before = {} THEN NaN
            ELSE q[CHOOSE j \in before : \A k \in before : k <= j]]

\* .bfill(): a NaN cell takes the nearest later value
Bfill(q) ==
    [i \in 1..Len(q) |->
        LET after == {j \in i..Len(q) : ~IsNaN(q[j])}
        IN  IF after = {} THEN NaN
            ELSE q[CHOOSE j \in after : \A k \in after : j <= k]]

\* lines 157-164 for a non-empty point list: sort, resample, ffill, bfill,
\* each stage bound to its value before the next one reads it
Normalize(points) ==
    CHOOSE filled \in
        {Bfill(f) : f \in {Ffill(m) : m \in {Resample(df) : df \in {SortByTs(points)}}}} :
        TRUE

\* variant: resample(..., label="right"), a bin is labelled by its right edge
SeriesIndexRight(points, i) == (Bin(SortByTs(points)[1][1]) + i) * ResampleSec

\* the timestamp of cell i of the normalized series: the left edge of its bin
SeriesIndex(points, i) == (Bin(SortByTs(points)[1][1]) + i - 1) * ResampleSec

\* the normalized series with its DatetimeIndex: <<timestamp, cell>> per slot
NormalizeIndexed(points) ==
    CHOOSE out \in {[i \in 1..Len(q) |-> <<SeriesIndex(points, i), q[i]>>] :
                       q \in {Normalize(points)}} : TRUE

\* lines 131-132: the lookback window [start, now] of the usage range query
WindowStart(now) == now - (LAGS + WindowMargin) * 60

-----------------------------------------------------------------------------
(* CPU limit guard and utilization: lines 173-181 *)

\* variant: the limit <= 0 guard of lines 176-178 is missing
EffectiveLimitUnguarded(jl) == IF jl # <<>> THEN jl[1] ELSE FallbackLimit

\* jl is the result list of the instant query: <<>> or <<value>>
EffectiveLimit(jl) ==
    LET limit == IF jl # <<>> THEN jl[1] ELSE FallbackLimit
    IN  IF limit <= 0 THEN FallbackLimit ELSE limit

\* s / limit, cell by cell (NaN stays NaN)
Divide(s, limit) ==
    [i \in 1..Len(s) |-> IF IsNaN(s[i]) THEN NaN ELSE <<s[i][1] \div limit>>]

-----------------------------------------------------------------------------
(* Feature builder: make_supervised, lines 108-114 *)

\* variant: ts.shift(-i), the series is shifted the other way
ShiftForward(ts, i) == [j \in 1..Len(ts) |-> IF j + i <= Len(ts) THEN ts[j + i] ELSE NaN]

\* ts.shift(i): the first i cells become NaN
Shift(ts, i) == [j \in 1..Len(ts) |-> IF j - i >= 1 THEN ts[j - i] ELSE NaN]

\* X has one row per index that dropna() keeps, each row lag_1..lag_L
make_supervised(ts, lags) ==
    LET complete(j) == /\ ~IsNaN(ts[j])
                       /\ \A i \in 1..lags : ~IsNaN(Shift(ts, i)[j])
        df(kept) ==
            [X |-> [r \in 1..Len(kept) |-> [i \in 1..lags |-> Shift(ts, i)[kept[r]]]],
             y |-> [r \in 1..Len(kept) |-> ts[kept[r]]]]
    IN  CHOOSE d \in {df(kept) : kept \in {SelectSeq([j \in 1..Len(ts) |-> j], complete)}} :
            TRUE

-----------------------------------------------------------------------------
(* Clamp: line 219, with Python's min and max *)

PyMin(a, b) == IF b < a THEN b ELSE a

PyMax(a, b) == IF b > a THEN b ELSE a

\* variant: the upper bound is missing
ClampNoUpper(yhat) == PyMax(0, yhat)

\* variant: the lower bound is missing
ClampNoLower(yhat) == PyMin(yhat, ClampMax)

Clamp(yhat) == PyMax(0, PyMin(yhat, ClampMax))

-----------------------------------------------------------------------------
(* The forecast gauge G: lines 49-53, and its use at lines 190 and 223 *)

NoChildren == [l \in {} |-> 0]

\* G.labels(l): the child of label l, created with value 0.0 when absent
GaugeLabels(g, l) ==
    IF l \in DOMAIN g THEN g
    ELSE [x \in DOMAIN g \cup {l} |-> IF x = l THEN 0 ELSE g[x]]

\* child.set(v): the child's value is replaced
GaugeSet(g, l, v) == [g EXCEPT ![l] = v]

-----------------------------------------------------------------------------
(* State of one loop thread *)

\* locals of loop() before they are bound
NoLocals ==
    [points |-> <<>>, s |-> <<>>, jl |-> <<>>, limit |-> NaN, util |-> <<>>,
     X |-> <<>>, y |-> <<>>, raw |-> NaN, yhat |-> NaN]

LocalNames == DOMAIN NoLocals

\* pc: position in loop(); gaugeAtStart: the gauge when the iteration began;
\* outcome: how the iteration just finished ended, "none" once the next began;
\* waited: seconds slept since the iteration body was left;
\* writes: calls of .set() on the gauge in the current iteration
NewThread ==
    [x \in LocalNames \cup {"pc", "gaugeAtStart", "outcome", "waited", "writes"} |->
        IF x = "pc" THEN "unstarted"
        ELSE IF x = "gaugeAtStart" THEN NoChildren
        ELSE IF x = "outcome" THEN "none"
        ELSE IF x \in {"waited", "writes"} THEN 0
        ELSE NoLocals[x]]

Idle(pc) == pc \in {"sleep", "sleep_nodata"}

Running(pc) == ~Idle(pc) /\ pc # "unstarted"

NoCall == [fn |-> "none"]

Init ==
    /\ started = FALSE
    /\ th = [t \in Threads |-> NewThread]
    /\ children = NoChildren
    /\ scraped = NoChildren
    /\ probe = <<>>
    /\ call = NoCall

\* thread t moves to pc with the locals in upd rebound
Step(t, pc, upd) ==
    \E u \in {upd} :
        th' = [th EXCEPT ![t] =
                  [x \in DOMAIN @ |-> IF x = "pc" THEN pc
                                      ELSE IF x \in DOMAIN u THEN u[x]
                                      ELSE @[x]]]

-----------------------------------------------------------------------------
(* Actions *)

\* variant: a loop thread is started each time, not once
ModuleLoadAgain ==
    /\ \E t \in Threads :
          /\ th[t].pc = "unstarted"
          /\ Step(t, "iter_start", <<>>)
    /\ started' = TRUE
    /\ UNCHANGED <<children, scraped, probe, call>>

\* line 239: loading the module starts the one loop thread
ModuleLoad ==
    /\ ~started
    /\ started' = TRUE
    /\ Step(1, "iter_start", <<>>)
    /\ UNCHANGED <<children, scraped, probe, call>>

\* lines 127-140: the try block is entered
BeginIteration(t) ==
    /\ th[t].pc = "iter_start"
    /\ Step(t, "usage_query", [gaugeAtStart |-> children, outcome |-> "none",
                                waited |-> 0, writes |-> 0])
    /\ UNCHANGED <<started, children, scraped, probe, call>>

\* lines 141-149: prom_range returns and the points are flattened
UsageQueryReturns(t) ==
    /\ th[t].pc = "usage_query"
    /\ \E pts \in PointLists : Step(t, "check_points", [points |-> pts])
    /\ UNCHANGED <<started, children, scraped, probe, call>>

\* lines 141-148: prom_range raises (timeout, status, payload) or float() does
UsageQueryRaises(t) ==
    /\ th[t].pc = "usage_query"
    /\ Step(t, "except", <<>>)
    /\ UNCHANGED <<started, children, scraped, probe, call>>

\* variant: the no-data path publishes 0.0 before sleeping
NoDataPublishesZero(t) ==
    /\ th[t].pc = "check_points"
    /\ th[t].points = <<>>
    /\ children' = GaugeSet(GaugeLabels(children, DEPLOY), DEPLOY, 0)
    /\ Step(t, "sleep_nodata", [outcome |-> "nodata", writes |-> th[t].writes + 1])
    /\ UNCHANGED <<started, scraped, probe, call>>

\* lines 150-154: no points, sleep and continue
NoData(t) ==
    /\ th[t].pc = "check_points"
    /\ th[t].points = <<>>
    /\ Step(t, "sleep_nodata", [outcome |-> "nodata"])
    /\ UNCHANGED <<started, children, scraped, probe, call>>

\* lines 157-164: the dense 5-second series
NormalizeSeries(t) ==
    /\ th[t].pc = "check_points"
    /\ th[t].points # <<>>
    /\ Step(t, "limit_query", [s |-> Normalize(th[t].points)])
    /\ UNCHANGED <<started, children, scraped, probe, call>>

\* line 172: prom_query returns a result list, empty or with one value
LimitQueryReturns(t) ==
    /\ th[t].pc = "limit_query"
    /\ \E jl \in {<<>>} \cup {<<v>> : v \in LimitValues} :
          Step(t, "limit_guard", [jl |-> jl])
    /\ UNCHANGED <<started, children, scraped, probe, call>>

\* lines 172-173: prom_query raises or the payload lacks the expected keys
LimitQueryRaises(t) ==
    /\ th[t].pc = "limit_query"
    /\ Step(t, "except", <<>>)
    /\ UNCHANGED <<started, children, scraped, probe, call>>

\* lines 173-178: the limit, or the fallback
LimitGuard(t) ==
    /\ th[t].pc = "limit_guard"
    /\ Step(t, "divide", [limit |-> <<EffectiveLimit(th[t].jl)>>])
    /\ UNCHANGED <<started, children, scraped, probe, call>>

\* line 181: util = s / limit
Utilization(t) ==
    /\ th[t].pc = "divide"
    /\ Step(t, "featurize", [util |-> Divide(th[t].s, th[t].limit[1])])
    /\ UNCHANGED <<started, children, scraped, probe, call>>

\* line 185: X, y = make_supervised(util, LAGS)
Featurize(t) ==
    /\ th[t].pc = "featurize"
    /\ \E d \in {make_supervised(th[t].util, LAGS)} :
          Step(t, "check_rows", [X |-> d.X, y |-> d.y])
    /\ UNCHANGED <<started, children, scraped, probe, call>>

\* variant: only an empty dataset takes the degrade path
OnlyEmptyIsTooFew(X) == Len(X) = 0

\* line 187: len(X) < 20
TooFewRows(X) == Len(X) < MinRows

\* lines 187-189: too few rows, 0.0 is to be published
Degrade(t) ==
    /\ th[t].pc = "check_rows"
    /\ TooFewRows(th[t].X)
    /\ Step(t, "degrade_labels", <<>>)
    /\ UNCHANGED <<started, children, scraped, probe, call>>

\* lines 191-201: enough rows, the features are scaled and split
EnterFit(t) ==
    /\ th[t].pc = "check_rows"
    /\ ~TooFewRows(th[t].X)
    /\ Step(t, "fit", <<>>)
    /\ UNCHANGED <<started, children, scraped, probe, call>>

\* lines 204-216: fit and predict return the raw forecast
FitPredict(t) ==
    /\ th[t].pc = "fit"
    /\ \E v \in RawForecasts : Step(t, "clamp", [raw |-> <<v>>, yhat |-> <<v>>])
    /\ UNCHANGED <<started, children, scraped, probe, call>>

\* lines 193-215: scaling, fitting or predicting raises
FitRaises(t) ==
    /\ th[t].pc = "fit"
    /\ Step(t, "except", <<>>)
    /\ UNCHANGED <<started, children, scraped, probe, call>>

\* line 219: yhat = max(0.0, min(yhat, 2.0))
ClampForecast(t) ==
    /\ th[t].pc = "clamp"
    /\ Step(t, "fit_labels", [yhat |-> <<Clamp(th[t].yhat[1])>>])
    /\ UNCHANGED <<started, children, scraped, probe, call>>

\* lines 190 and 223, first half: G.labels(DEPLOY)
PublishLabels(t) ==
    /\ th[t].pc \in {"degrade_labels", "fit_labels"}
    /\ children' = GaugeLabels(children, DEPLOY)
    /\ Step(t, IF th[t].pc = "degrade_labels" THEN "degrade_set" ELSE "fit_set", <<>>)
    /\ UNCHANGED <<started, scraped, probe, call>>

\* variant: no else at line 191, the degrade path runs on into the fit
PublishSetFallsThrough(t) ==
    /\ th[t].pc \in {"degrade_set", "fit_set"}
    /\ children' = GaugeSet(children, DEPLOY,
                            IF th[t].pc = "degrade_set" THEN 0 ELSE th[t].yhat[1])
    /\ Step(t, IF th[t].pc = "degrade_set" THEN "fit" ELSE "end_iter",
            [writes |-> th[t].writes + 1])
    /\ UNCHANGED <<started, scraped, probe, call>>

\* lines 190 and 223, second half: .set(0.0) or .set(yhat)
PublishSet(t) ==
    /\ th[t].pc \in {"degrade_set", "fit_set"}
    /\ children' = GaugeSet(children, DEPLOY,
                            IF th[t].pc = "degrade_set" THEN 0 ELSE th[t].yhat[1])
    /\ Step(t, "end_iter", [writes |-> th[t].writes + 1])
    /\ UNCHANGED <<started, scraped, probe, call>>

\* lines 228-235: del s, util; then sleep
EndIteration(t) ==
    /\ th[t].pc = "end_iter"
    /\ Step(t, "sleep", [s |-> <<>>, util |-> <<>>,
                         outcome |-> IF IsNaN(th[t].yhat) THEN "degraded" ELSE "success"])
    /\ UNCHANGED <<started, children, scraped, probe, call>>

\* variant: the handler removes the published forecast
HandleExceptionClears(t) ==
    /\ th[t].pc = "except"
    /\ children' = NoChildren
    /\ Step(t, "sleep", [outcome |-> "failed"])
    /\ UNCHANGED <<started, scraped, probe, call>>

\* variant: the exception is not caught and ends the thread
HandleExceptionReraises(t) ==
    /\ th[t].pc = "except"
    /\ Step(t, "dead", [outcome |-> "failed"])
    /\ UNCHANGED <<started, children, scraped, probe, call>>

\* lines 230-235: the exception is logged; then sleep
HandleException(t) ==
    /\ th[t].pc = "except"
    /\ Step(t, "sleep", [outcome |-> "failed"])
    /\ UNCHANGED <<started, children, scraped, probe, call>>

\* the locals after one time.sleep(INTERVAL): unbound again, INTERVAL more waited
Slept(t) ==
    [x \in LocalNames \cup {"waited"} |->
        IF x = "waited" THEN th[t].waited + INTERVAL ELSE NoLocals[x]]

\* variant: no continue at line 154, so the no-data path also sleeps at line 235
WakeNoContinue(t) ==
    /\ Idle(th[t].pc)
    /\ IF th[t].pc = "sleep_nodata"
       THEN Step(t, "sleep", [waited |-> th[t].waited + INTERVAL])
       ELSE Step(t, "iter_start", Slept(t))
    /\ UNCHANGED <<started, children, scraped, probe, call>>

\* lines 153-154 and 235: time.sleep(INTERVAL) returns, back to the top of the
\* while loop.  Every local is rebound before it is read again (lines 144,
\* 159, 172, 173, 181, 185, 215), so the old bindings are dropped here.
Wake(t) ==
    /\ Idle(th[t].pc)
    /\ Step(t, "iter_start", Slept(t))
    /\ UNCHANGED <<started, children, scraped, probe, call>>

\* lines 59-62: /metrics returns the current samples of the gauge
Scrape ==
    /\ started
    /\ scraped' = children
    /\ UNCHANGED <<started, th, children, probe, call>>

\* variant: the probe reports whether the latest iteration got through
HealthzFromLoop ==
    /\ started
    /\ probe' = <<[ok |-> \A t \in Threads : th[t].outcome # "failed"]>>
    /\ UNCHANGED <<started, th, children, scraped, call>>

\* lines 65-68: /healthz returns the constant body {"ok": True}
Healthz ==
    /\ started
    /\ probe' = <<[ok |-> TRUE]>>
    /\ UNCHANGED <<started, th, children, scraped, call>>

LoopStep(t) ==
    \/ BeginIteration(t)
    \/ UsageQueryReturns(t)
    \/ UsageQueryRaises(t)
    \/ NoData(t)
    \/ NormalizeSeries(t)
    \/ LimitQueryReturns(t)
    \/ LimitQueryRaises(t)
    \/ LimitGuard(t)
    \/ Utilization(t)
    \/ Featurize(t)
    \/ Degrade(t)
    \/ EnterFit(t)
    \/ FitPredict(t)
    \/ FitRaises(t)
    \/ ClampForecast(t)
    \/ PublishLabels(t)
    \/ PublishSet(t)
    \/ EndIteration(t)
    \/ HandleException(t)
    \/ Wake(t)

Next ==
    \/ ModuleLoad
    \/ \E t \in Threads : LoopStep(t)
    \/ Scrape
    \/ Healthz

Spec == Init /\ [][Next]_vars

\* the steps of the program without the /healthz requests, which change
\* only probe, a variable no other step reads
NextNoProbe ==
    \/ ModuleLoad
    \/ \E t \in Threads : LoopStep(t)
    \/ Scrape

\* the loop thread keeps being scheduled, and every blocking call in it is
\* bounded (timeouts at lines 78 and 94, max_iter at line 204, sleep at 235);
\* nothing is assumed of the requests, and the probe is left out
FairSpec ==
    /\ Init
    /\ [][NextNoProbe]_vars
    /\ WF_vars(ModuleLoad)
    /\ \A t \in Threads : WF_vars(LoopStep(t))

-----------------------------------------------------------------------------
(* A direct call of make_supervised on an arbitrary series *)

Cells == {NaN} \cup {<<v>> : v \in SeriesValues}

InitMS ==
    /\ started = FALSE
    /\ th = [t \in Threads |-> NewThread]
    /\ children = NoChildren
    /\ scraped = NoChildren
    /\ probe = <<>>
    /\ \E q \in SeqsUpTo(Cells, MaxLen), l \in 1..MaxLen :
          call = [fn |-> "make_supervised", ts |-> q, lags |-> l,
                  done |-> FALSE, X |-> <<>>, y |-> <<>>]

\* lines 108-114
CallMakeSupervised ==
    /\ call.fn = "make_supervised"
    /\ ~call.done
    /\ \E d \in {make_supervised(call.ts, call.lags)} :
          call' = [call EXCEPT !.done = TRUE, !.X = d.X, !.y = d.y]
    /\ UNCHANGED <<started, th, children, scraped, probe>>

NextMS == CallMakeSupervised

SpecMS == InitMS /\ [][NextMS]_vars

-----------------------------------------------------------------------------
(* Properties *)

InRange(g) == \A l \in DOMAIN g : 0 <= g[l] /\ g[l] <= ClampMax

\* positions at which the publish of an iteration is under way or just done
PublishPcs == {"degrade_labels", "degrade_set", "fit_labels", "fit_set", "end_iter"}

\* C1: an iteration that fails (usage query, limit query or fitting raised)
\* leaves the gauge exactly as it was when the iteration began.
C1_FailedIterationKeepsGauge ==
    \A t \in Threads :
        (th[t].pc = "except" \/ (th[t].pc = "sleep" /\ th[t].outcome = "failed"))
            => children = th[t].gaugeAtStart

C1_Witness ==
    /\ th[1].pc = "sleep"
    /\ th[1].outcome = "failed"
    /\ th[1].points # <<>>
    /\ DEPLOY \in DOMAIN children
    /\ children[DEPLOY] = 40
    /\ scraped = children

\* C2: every value of the gauge, and every value a scrape has returned, lies
\* in [0, 2.0].
C2_ForecastInRange == InRange(children) /\ InRange(scraped)

C2_Witness ==
    /\ th[1].pc = "sleep"
    /\ th[1].raw = <<350>>
    /\ scraped = (DEPLOY :> ClampMax)

\* C3: every iteration of the loop thread (thread 1, the one line 239 starts)
\* returns to Idle, and from Idle after any outcome it starts another one.
C3_LoopNeverTerminates ==
    /\ Running(th[1].pc) ~> Idle(th[1].pc)
    /\ (Idle(th[1].pc) /\ th[1].outcome \in {"nodata", "degraded", "success", "failed"})
          ~> (th[1].pc = "usage_query")

C3_Witness ==
    /\ th[1].pc = "iter_start"
    /\ th[1].outcome = "failed"

\* C4: an iteration whose usage query returned no points does not write the
\* gauge: the gauge stays as it was when the iteration began, and no position
\* past the empty check is reached with an empty point list.
C4_EmptyUsagePublishesNothing ==
    \A t \in Threads :
        /\ (th[t].pc \in {"check_points", "sleep_nodata"} /\ th[t].points = <<>>)
              => children = th[t].gaugeAtStart
        /\ th[t].pc \in PublishPcs => th[t].points # <<>>

C4_Witness ==
    /\ th[1].pc = "sleep_nodata"
    /\ th[1].points = <<>>
    /\ children = (DEPLOY :> 40)
    /\ scraped = children

\* C5: with fewer than 20 rows the iteration publishes 0.0 and does not fit
\* or predict; the fit path is entered only with at least 20 rows.
C5_TooFewRowsPublishesZero ==
    \A t \in Threads :
        /\ th[t].pc \in {"fit", "clamp", "fit_labels", "fit_set"}
              => Len(th[t].X) >= MinRows
        /\ (/\ th[t].pc = "end_iter" \/ (th[t].pc = "sleep" /\ th[t].outcome # "failed")
            /\ Len(th[t].X) < MinRows)
              => /\ DEPLOY \in DOMAIN children
                 /\ children[DEPLOY] = 0
                 /\ IsNaN(th[t].raw)

C5_Witness ==
    /\ th[1].pc = "end_iter"
    /\ Len(th[1].util) < LAGS
    /\ th[1].X = <<>>
    /\ th[1].gaugeAtStart = (DEPLOY :> 40)
    /\ children = (DEPLOY :> 0)

\* C6: after an iteration that predicted the raw value v, the gauge holds
\* 0 if v < 0, 2.0 if v > 2.0 and v otherwise.
C6_PublishedIsClampedRaw ==
    \A t \in Threads :
        ((th[t].pc = "end_iter" \/ th[t].pc = "sleep") /\ ~IsNaN(th[t].raw))
            => /\ DEPLOY \in DOMAIN children
               /\ children[DEPLOY] =
                     IF th[t].raw[1] < 0 THEN 0
                     ELSE IF th[t].raw[1] > ClampMax THEN ClampMax
                     ELSE th[t].raw[1]

C6_Witness ==
    /\ th[1].pc = "end_iter"
    /\ th[1].raw = <<-50>>
    /\ th[1].gaugeAtStart = (DEPLOY :> ClampMax)
    /\ children = (DEPLOY :> 0)

\* C7: the limit step never aborts: it continues to the division with a
\* strictly positive divisor, which is the fallback 0.1 whenever the query
\* returned no result or a value <= 0.
C7_DivisorPositive ==
    /\ [](\A t \in Threads : th[t].pc = "divide" => th[t].limit[1] > 0)
    /\ [][\A t \in Threads :
            (th[t].pc = "limit_guard" /\ th'[t] # th[t])
                => /\ th'[t].pc = "divide"
                   /\ th'[t].limit[1] > 0
                   /\ (th[t].jl = <<>> \/ th[t].jl[1] <= 0)
                         => th'[t].limit = <<FallbackLimit>>]_vars

C7_Witness ==
    /\ th[1].pc = "end_iter"
    /\ th[1].jl = <<0>>
    /\ th[1].limit = <<FallbackLimit>>

\* the value the publish of thread t sets
PublishValue(t) ==
    IF th[t].pc \in {"degrade_labels", "degrade_set"} \/ IsNaN(th[t].yhat)
    THEN 0 ELSE th[t].yhat[1]

\* C8: a scrape during a publish returns either the samples from before the
\* publish or the newly published sample for the label, nothing else.
C8_ScrapeSeesPreviousOrNewest ==
    [][Scrape =>
         \A t \in Threads :
            th[t].pc \in PublishPcs
               => scraped' \in {th[t].gaugeAtStart, DEPLOY :> PublishValue(t)}]_vars

\* C9: at most one loop thread is inside an iteration at any time.
C9_OneIterationAtATime ==
    Cardinality({t \in Threads : Running(th[t].pc)}) <= 1

C9_Witness ==
    /\ th[1].pc = "iter_start"
    /\ th[1].outcome = "success"
    /\ \A t \in Threads \ {1} : th[t].pc = "unstarted"

\* a series without NaN
Dense(ts) == \A j \in 1..Len(ts) : ~IsNaN(ts[j])

\* C10: for a dense series of length N and L < N, make_supervised returns
\* N - L rows; row r (from 1) has target ts[r+L] and lag_k = ts[r+L-k].
C10_SupervisedAlignment ==
    (call.fn = "make_supervised" /\ call.done /\ Dense(call.ts)
        /\ call.lags < Len(call.ts))
        => LET N == Len(call.ts)
               L == call.lags
           IN  /\ Len(call.X) = N - L
               /\ Len(call.y) = N - L
               /\ \A r \in 1..(N - L) :
                     /\ call.y[r] = call.ts[r + L]
                     /\ DOMAIN call.X[r] = 1..L
                     /\ \A k \in 1..L : call.X[r][k] = call.ts[r + L - k]

C10_Witness ==
    /\ call.fn = "make_supervised"
    /\ call.done
    /\ call.ts = << <<1>>, <<2>>, <<3>>, <<1>> >>
    /\ call.lags = 2
    /\ call.y = << <<3>>, <<1>> >>

\* C11: whenever the loop is back at the top after an iteration, it has slept
\* exactly one INTERVAL since that iteration ended, whatever the outcome was.
C11_OneIntervalBetweenIterations ==
    \A t \in Threads :
        /\ (th[t].pc = "iter_start" /\ th[t].outcome # "none") => th[t].waited = INTERVAL
        /\ Idle(th[t].pc) => th[t].waited = 0

C11_Witness ==
    /\ th[1].pc = "iter_start"
    /\ th[1].outcome = "nodata"
    /\ th[1].waited = INTERVAL
    /\ children = (DEPLOY :> 40)

-----------------------------------------------------------------------------
(* A direct call of the normalizer on an arbitrary point list *)

\* the raw points a series stands for, when it is normalized again
PointsOf(series) ==
    LET valued(p) == ~IsNaN(p[2])
        kept == SelectSeq(series, valued)
    IN  [i \in 1..Len(kept) |-> <<kept[i][1], kept[i][2][1]>>]

InitNorm ==
    /\ started = FALSE
    /\ th = [t \in Threads |-> NewThread]
    /\ children = NoChildren
    /\ scraped = NoChildren
    /\ probe = <<>>
    /\ \E p \in SeqsUpTo(NormOffsets \X UsageValues, NormPoints) \ {<<>>} :
          call = [fn |-> "normalize", now |-> (LAGS + WindowMargin) * 60,
                  points |-> p, done |-> 0, out |-> <<>>, again |-> <<>>]

\* lines 157-164 on the points of a range query over [start, now]
CallNormalize ==
    /\ call.fn = "normalize"
    /\ call.done = 0
    /\ call' = [call EXCEPT !.done = 1, !.out = NormalizeIndexed(call.points)]
    /\ UNCHANGED <<started, th, children, scraped, probe>>

\* lines 157-164 on the series the first call returned
CallNormalizeAgain ==
    /\ call.fn = "normalize"
    /\ call.done = 1
    /\ call' = [call EXCEPT !.done = 2, !.again = NormalizeIndexed(PointsOf(call.out))]
    /\ UNCHANGED <<started, th, children, scraped, probe>>

NextNorm == CallNormalize \/ CallNormalizeAgain

SpecNorm == InitNorm /\ [][NextNorm]_vars

\* sorted by timestamp with exactly 5 seconds between neighbours
OnCadence(points) ==
    /\ points # <<>>
    /\ \A i \in 1..(Len(points) - 1) : points[i + 1][1] = points[i][1] + 5

\* every timestamp is a multiple of 5 seconds
Aligned(points) == \A i \in 1..Len(points) : points[i][1] % 5 = 0

\* C12 as stated: a dense series on the 5-second cadence comes back unchanged.
C12_DenseSeriesUnchanged ==
    (call.fn = "normalize" /\ call.done >= 1 /\ OnCadence(call.points))
        => PointsOf(call.out) = call.points

\* C12 amended: a dense series on the 5-second cadence whose timestamps are
\* multiples of 5 seconds comes back unchanged, and for every input
\* normalizing the result again returns it unchanged.
C12_AlignedSeriesUnchanged ==
    /\ (call.fn = "normalize" /\ call.done >= 1
            /\ OnCadence(call.points) /\ Aligned(call.points))
          => PointsOf(call.out) = call.points
    /\ (call.fn = "normalize" /\ call.done = 2) => call.again = call.out

C12_Witness ==
    /\ call.fn = "normalize"
    /\ call.done = 2
    /\ call.points = << <<0, 200>>, <<5, 600>>, <<10, 200>> >>
    /\ call.again = call.out
    /\ Len(call.out) = 3

\* the indices of the points that fall into bin b
InBin(points, b) == {k \in 1..Len(points) : Bin(points[k][1]) = b}

\* C14 as stated: every 5-second slot of the window [start, now] has a value.
C14_DenseAcrossWindow ==
    (call.fn = "normalize" /\ call.done >= 1)
        => \A b \in Bin(WindowStart(call.now))..Bin(call.now) :
              \E i \in 1..Len(call.out) :
                 call.out[i][1] = b * 5 /\ ~IsNaN(call.out[i][2])

\* C14 amended: every 5-second slot from the slot of the earliest point to
\* the slot of the latest point has a value; a slot without a point holds
\* the value of the slot before it, and the first slot always holds a point.
C14_DenseBetweenFirstAndLast ==
    (call.fn = "normalize" /\ call.done >= 1)
        => LET ts == {call.points[k][1] : k \in 1..Len(call.points)}
               lo == CHOOSE b \in {Bin(x) : x \in ts} : \A x \in ts : b <= Bin(x)
               hi == CHOOSE b \in {Bin(x) : x \in ts} : \A x \in ts : Bin(x) <= b
           IN  /\ Len(call.out) = hi - lo + 1
               /\ InBin(call.points, lo) # {}
               /\ \A i \in 1..Len(call.out) :
                     /\ call.out[i][1] = (lo + i - 1) * 5
                     /\ ~IsNaN(call.out[i][2])
                     /\ (InBin(call.points, lo + i - 1) = {} /\ i > 1)
                           => call.out[i][2] = call.out[i - 1][2]

C14_Witness ==
    /\ call.fn = "normalize"
    /\ call.done = 1
    /\ call.points = << <<20, 600>>, <<3, 200>> >>
    /\ Len(call.out) = 5
    /\ call.out[4] = <<15, <<200>> >>

\* C15: where several points have the same timestamp (and no other point
\* shares their 5-second slot), the slot of that timestamp holds the value of
\* the last of them in the input.
C15_LastDuplicateWins ==
    (call.fn = "normalize" /\ call.done >= 1)
        => \A k \in 1..Len(call.points) :
              LET same == {j \in 1..Len(call.points) :
                              call.points[j][1] = call.points[k][1]}
                  last == CHOOSE j \in same : \A m \in same : m <= j
              IN  (/\ Cardinality(same) > 1
                   /\ InBin(call.points, Bin(call.points[k][1])) = same)
                     => \E i \in 1..Len(call.out) :
                           /\ call.out[i][1] = Bin(call.points[k][1]) * 5
                           /\ call.out[i][2] = <<call.points[last][2]>>

\* C13: every answer of /healthz is {"ok": true}, whatever the loop has done
\* (success, degrade, no data, failure) and whether or not the gauge was
\* ever written.
C13_HealthzAlwaysOk == probe = <<>> \/ probe = <<[ok |-> TRUE]>>

\* the probe has answered ok although the latest iteration failed and the
\* gauge has never been written
C13_Witness ==
    /\ probe = <<[ok |-> TRUE]>>
    /\ th[1].outcome = "failed"
    /\ children = NoChildren


\* C20: in one iteration .set() is called on the gauge at most once, and
\* only when the usage query has returned a non-empty point list and the
\* limit query has returned after it; every change of the gauge is made by
\* such an iteration; the limit query is issued only with usage points.
C20_WriteOnceAfterBothQueries ==
    [][/\ \A t \in Threads :
             /\ th'[t].writes <= 1
             /\ th'[t].writes > th[t].writes =>
                    /\ th[t].points # <<>>
                    /\ th[t].jl \in {<<>>} \cup {<<v>> : v \in LimitValues}
                    /\ ~IsNaN(th[t].limit)
             /\ th'[t].pc = "limit_query" => th'[t].points # <<>>
             /\ (th'[t].limit # th[t].limit /\ ~IsNaN(th'[t].limit)) =>
                    th[t].points # <<>>
       /\ children' # children =>
             \E t \in Threads :
                 /\ th[t].pc \in PublishPcs
                 /\ th[t].points # <<>>
                 /\ ~IsNaN(th[t].limit)
                 /\ DOMAIN children' = {DEPLOY}]_vars

\* an iteration that got points and a limit has written its forecast once
C20_Witness ==
    /\ th[1].pc = "end_iter"
    /\ th[1].writes = 1
    /\ th[1].points # <<>>
    /\ th[1].limit = <<10>>
    /\ children = (DEPLOY :> 40)


-----------------------------------------------------------------------------
(* Scaling, split, fit and latest window: lines 193-211 *)

\* usage points per range query in the fit-path specification
FitPoints == 3

\* sample timestamps that give series of 22, 23 and 25 five-second slots
FitTimestamps == {0, 105, 110, 120}

FitPointLists == SeqsUpTo(FitTimestamps \X UsageValues, FitPoints) \ {<<>>}

\* standardized values are kept in thousandths
Milli == 1000

\* the integer square root, by Newton's iteration from above
RECURSIVE SqrtFrom(_, _)
SqrtFrom(v, r) ==
    LET nxt == (r + v \div r) \div 2
    IN  IF nxt >= r THEN r ELSE SqrtFrom(v, nxt)

ISqrt(v) == IF v = 0 THEN 0 ELSE SqrtFrom(v, v)

\* column k of a feature matrix, as plain numbers
Column(X, k) == [r \in 1..Len(X) |-> X[r][k][1]]

\* StandardScaler.fit(rows): per feature the number of rows, their sum and
\* their sum of squares, which fix mean_ = sum / n and var_ = sumsq / n - mean_^2
ScalerFit(rows) ==
    [k \in DOMAIN rows[1] |->
        CHOOSE st \in {[n |-> Len(c), sum |-> SumSeq(c),
                        sumsq |-> SumSeq([r \in 1..Len(c) |-> c[r] * c[r]])] :
                           c \in {Column(rows, k)}} : TRUE]

\* (x - mean_) / scale_ in thousandths; scale_ is 1 for a constant feature
Standardize(st, x) ==
    LET dev == x * st.n - st.sum
        root == ISqrt(st.n * st.sumsq - st.sum * st.sum)
    IN  IF root = 0 THEN (dev * Milli) \div st.n ELSE (dev * Milli) \div root

\* scaler.transform of one row and of a matrix
TransformRow(scaler, row) ==
    [k \in DOMAIN row |-> <<Standardize(scaler[k], row[k][1])>>]

Transform(scaler, X) == [r \in 1..Len(X) |-> TransformRow(scaler, X[r])]

\* train_test_split(test_size=0.2): n_test = ceil(0.2 * n), n_train = n - n_test
NTest(n) == (n + 4) \div 5

NTrain(n) == n - NTest(n)

\* the state at line 191: util, X and y of an iteration with enough rows
InitFit ==
    /\ started = FALSE
    /\ th = [t \in Threads |-> NewThread]
    /\ children = NoChildren
    /\ scraped = NoChildren
    /\ probe = <<>>
    /\ \E pts \in FitPointLists, jl \in {<<>>, <<10>>} :
          \E u \in {Divide(Normalize(pts), EffectiveLimit(jl))} :
              \E d \in {make_supervised(u, LAGS)} :
                  /\ ~TooFewRows(d.X)
                  /\ call = [fn |-> "fit", stage |-> 0, util |-> u,
                             X |-> d.X, y |-> d.y,
                             scaler |-> <<>>, Xs |-> <<>>,
                             Xtr |-> <<>>, Xte |-> <<>>, ytr |-> <<>>, yte |-> <<>>,
                             fitX |-> <<>>, fitY |-> <<>>,
                             x_last_raw |-> <<>>, x_last |-> <<>>]

\* lines 193-194: scaler = StandardScaler(); Xs = scaler.fit_transform(X)
ScaleFeatures ==
    /\ call.fn = "fit"
    /\ call.stage = 0
    /\ \E sc \in {ScalerFit(call.X)} :
          call' = [call EXCEPT !.stage = 1, !.scaler = sc, !.Xs = Transform(sc, call.X)]
    /\ UNCHANGED <<started, th, children, scraped, probe>>

\* variant: the test rows are taken from the front
SplitRowsTestFirst ==
    /\ call.fn = "fit"
    /\ call.stage = 1
    /\ \E n \in {Len(call.Xs)} :
          call' = [call EXCEPT !.stage = 2,
                               !.Xte = SubSeq(call.Xs, 1, NTest(n)),
                               !.Xtr = SubSeq(call.Xs, NTest(n) + 1, n),
                               !.yte = SubSeq(call.y, 1, NTest(n)),
                               !.ytr = SubSeq(call.y, NTest(n) + 1, n)]
    /\ UNCHANGED <<started, th, children, scraped, probe>>

\* lines 198-199: train_test_split(Xs, y, test_size=0.2, shuffle=False)
SplitRows ==
    /\ call.fn = "fit"
    /\ call.stage = 1
    /\ \E n \in {Len(call.Xs)} :
          call' = [call EXCEPT !.stage = 2,
                               !.Xtr = SubSeq(call.Xs, 1, NTrain(n)),
                               !.Xte = SubSeq(call.Xs, NTrain(n) + 1, n),
                               !.ytr = SubSeq(call.y, 1, NTrain(n)),
                               !.yte = SubSeq(call.y, NTrain(n) + 1, n)]
    /\ UNCHANGED <<started, th, children, scraped, probe>>

\* lines 204-205: model.fit(Xtr, ytr), recorded by its arguments
FitModel ==
    /\ call.fn = "fit"
    /\ call.stage = 2
    /\ call' = [call EXCEPT !.stage = 3, !.fitX = call.Xtr, !.fitY = call.ytr]
    /\ UNCHANGED <<started, th, children, scraped, probe>>

\* variant: the window is taken oldest value first
LatestWindowOldestFirst ==
    /\ call.fn = "fit"
    /\ call.stage = 3
    /\ \E raw \in {[i \in 1..LAGS |-> call.util[Len(call.util) - LAGS + i]]} :
          call' = [call EXCEPT !.stage = 4, !.x_last_raw = raw,
                               !.x_last = TransformRow(call.scaler, raw)]
    /\ UNCHANGED <<started, th, children, scraped, probe>>

\* lines 209-211: x_last_raw = [util.iloc[-i] for i in 1..LAGS], then
\* x_last = scaler.transform(x_last_raw)
LatestWindow ==
    /\ call.fn = "fit"
    /\ call.stage = 3
    /\ \E raw \in {[i \in 1..LAGS |-> call.util[Len(call.util) + 1 - i]]} :
          call' = [call EXCEPT !.stage = 4, !.x_last_raw = raw,
                               !.x_last = TransformRow(call.scaler, raw)]
    /\ UNCHANGED <<started, th, children, scraped, probe>>

NextFit ==
    \/ ScaleFeatures
    \/ SplitRows
    \/ FitModel
    \/ LatestWindow

SpecFit == InitFit /\ [][NextFit]_vars


\* the rows of X that the split puts into the training partition
TrainingRows(X) == SubSeq(X, 1, NTrain(Len(X)))

\* two scaler states with the same mean_ and var_ for every feature
SameMeanAndStd(a, b) ==
    /\ DOMAIN a = DOMAIN b
    /\ \A k \in DOMAIN a :
          /\ a[k].sum * b[k].n = b[k].sum * a[k].n
          /\ a[k].sumsq * b[k].n = b[k].sumsq * a[k].n

\* C16: the scaler's mean and standard deviation come from the rows of the
\* training partition only, and that state transforms the features and the
\* latest window.
C16_ScalerFitOnTrainingRows ==
    (call.fn = "fit" /\ call.stage >= 1) =>
        /\ SameMeanAndStd(call.scaler, ScalerFit(TrainingRows(call.X)))
        /\ call.Xs = Transform(call.scaler, call.X)
        /\ call.stage = 4 => call.x_last = TransformRow(call.scaler, call.x_last_raw)

\* the least k with k >= n / 5
CeilFifth(n) == CHOOSE k \in 0..n : 5 * k >= n /\ 5 * (k - 1) < n

\* C17: with n >= 20 rows the training partition is the first n - ceil(0.2 n)
\* rows and the test partition the rest, in their original order, and the
\* model is fitted on the training rows and targets only.
C17_ChronologicalSplit ==
    (call.fn = "fit" /\ call.stage >= 2) =>
        LET n == Len(call.Xs)
            nTrain == n - CeilFifth(n)
        IN  /\ n >= MinRows
            /\ Len(call.Xtr) = nTrain
            /\ call.Xtr \o call.Xte = call.Xs
            /\ Len(call.ytr) = nTrain
            /\ call.ytr \o call.yte = call.y
            /\ call.stage >= 3 =>
                   /\ call.fitX = SubSeq(call.Xs, 1, nTrain)
                   /\ call.fitY = SubSeq(call.y, 1, nTrain)

\* a 21-row dataset is split 16 / 5 and the model has been fitted; the
\* first and the last feature row differ
C17_Witness ==
    /\ call.fn = "fit"
    /\ call.stage = 3
    /\ Len(call.X) = 21
    /\ Len(call.fitX) = 16
    /\ Len(call.Xte) = 5
    /\ call.Xs[1] # call.Xs[21]

\* C18: position k of the live input holds the k-th most recent value of
\* util, the order the training rows have (row r, whose target is
\* util[r + LAGS], holds util[r + LAGS - k] at position k), and the live
\* input is transformed by the scaler state that transformed the features.
C18_LatestWindowInLagOrder ==
    (call.fn = "fit" /\ call.stage = 4) =>
        LET N == Len(call.util)
        IN  /\ \A k \in 1..LAGS :
                   /\ call.x_last_raw[k] = call.util[N + 1 - k]
                   /\ \A r \in 1..Len(call.X) : call.X[r][k] = call.util[r + LAGS - k]
            /\ call.x_last = TransformRow(call.scaler, call.x_last_raw)
            /\ call.Xs = Transform(call.scaler, call.X)

\* the window has been built from a series whose two latest values differ
C18_Witness ==
    /\ call.fn = "fit"
    /\ call.stage = 4
    /\ call.util[Len(call.util)] = <<20>>
    /\ call.util[Len(call.util) - 1] = <<60>>
    /\ call.x_last_raw[1] = <<20>>
    /\ call.x_last_raw[2] = <<60>>
    /\ call.x_last[1] # call.x_last[2]


=============================================================================
